---- MODULE Spec2Model ----
(***************************************************************************)
(* Deliveries and slots of the logistic_automation addon                   *)
(* (src/delivery.py, src/slots.py.py).                                     *)
(*                                                                         *)
(* The state is the content of the logistic.delivery, logistic.slot and    *)
(* logistic.zone.status tables plus sale.order.delivery_date, as the       *)
(* methods of the two models leave it.  Every action is one call of a      *)
(* method (or one ORM write with the @api.constrains hooks it triggers).   *)
(* A method that raises leaves the records as they were when the exception *)
(* left it: undoing a transaction is the host framework's business and is  *)
(* not part of this code base (Slot.schedule, for one, swallows the        *)
(* exceptions of the methods it calls).                                    *)
(*                                                                         *)
(* Recordsets are sequences without repetition (a recordset keeps the      *)
(* order it was built in); a One2many is read in id order.  Assigning a    *)
(* field on a recordset of several records writes every record of it.      *)
(***************************************************************************)
EXTENDS Integers, Sequences, FiniteSets

\* ------------------------------------------------------------ bounds
MaxSlots == 3
MaxDeliveries == 2
MaxDate == 2
MaxRecs == 2

\* ------------------------------------------------ records of other models
\* sale.order, sale.order.line, fleet.vehicle and logistic.zone records that
\* the two models read through related fields; they are the inputs of the model.
Orders == {1, 2}
Lines == {1, 2, 3}
LineOrder == <<1, 1, 2>>
LineVolume == <<1, 2, 1>>
OrderZone == <<1, 2>>
ZoneCluster == <<1, 2>>
Vehicles == {1, 2}
VehicleCapacity == <<2, 4>>

None == 0
NoDate == 0
Dates == 0..MaxDate
SlotIds == 1..MaxSlots
DeliveryIds == 1..MaxDeliveries

VARIABLES slot, delivery, slot_seq, delivery_seq, zone_status, order_date, today, ret
vars == <<slot, delivery, slot_seq, delivery_seq, zone_status, order_date, today, ret>>

\* ------------------------------------------------------------ fields
\* logistic.slot: the fields the methods below read or write.
NoSlot ==
    [live |-> FALSE, line |-> None, date |-> NoDate, delivery_id |-> None,
     status |-> "scheduled", is_delivered |-> FALSE, is_returned |-> FALSE,
     zone_status_id |-> <<>>]

\* logistic.delivery: the fields the methods below read or write.
NoDelivery ==
    [live |-> FALSE, date |-> NoDate, status |-> "scheduled", vehicle_id |-> None,
     cancelled_date |-> FALSE]

SLOT_STATUS == {"scheduled", "delivered", "returned", "cancelled"}
STATUS == {"scheduled", "loaded", "in_transit", "fulfilled", "cancelled"}

\* What the last call was and how it ended: the method, and the value it returned
\* ("True", "None") or the exception it raised, with its message.
Ret(op, r) == [op |-> op, res |-> r.res, msg |-> r.msg]

\* ------------------------------------------------------------ helpers
Range(q) == {q[i] : i \in 1..Len(q)}

RECURSIVE RecordSets(_, _)
\* The recordsets of at most n records over the ids S, in every order.
RecordSets(S, n) ==
    IF n = 0 THEN {<<>>}
    ELSE LET shorter == RecordSets(S, n - 1)
         IN  shorter \cup
             {Append(p[1], p[2]) : p \in {pp \in shorter \X S : pp[2] \notin Range(pp[1])}}

RECURSIVE IdSeq(_)
\* The ids S in id order, the order in which a One2many is read.
IdSeq(S) ==
    IF S = {} THEN <<>>
    ELSE LET m == CHOOSE x \in S : \A y \in S : x <= y
         IN  <<m>> \o IdSeq(S \ {m})

\* delivery.slot_ids: One2many over slot.delivery_id.
slot_ids(sl, d) == {s \in SlotIds : sl[s].live /\ sl[s].delivery_id = d}

\* slot.sale_order_id: related sale_order_line_id.order_id.
sale_order_id(sl, s) == IF sl[s].line = None THEN None ELSE LineOrder[sl[s].line]

\* slot.zone_id: related sale_order_id.zone_id.
zone_id(sl, s) == IF sale_order_id(sl, s) = None THEN None ELSE OrderZone[sale_order_id(sl, s)]

\* slot.cluster_id: related sale_order_id.cluster_id.
cluster_id(sl, s) == IF zone_id(sl, s) = None THEN None ELSE ZoneCluster[zone_id(sl, s)]

\* slot.total_volume: related sale_order_line_id.volume.
total_volume(sl, s) == IF sl[s].line = None THEN 0 ELSE LineVolume[sl[s].line]

\* vehicle.total_capacity; 0 on an empty recordset.
total_capacity(v) == IF v = None THEN 0 ELSE VehicleCapacity[v]

RECURSIVE SumVolume(_, _)
\* sum(slots.mapped('total_volume'))
SumVolume(sl, S) ==
    IF S = {} THEN 0
    ELSE LET s == CHOOSE x \in S : TRUE
         IN  total_volume(sl, s) + SumVolume(sl, S \ {s})

\* delivery.sale_order_ids: the orders of the delivery's slots.
compute_sale_order_ids(sl, d) == {sale_order_id(sl, s) : s \in slot_ids(sl, d)} \ {None}

\* delivery.zone_id: the zone of the slots when they all share one, else unset.
compute_zone_id(sl, d) ==
    LET zs == {zone_id(sl, s) : s \in slot_ids(sl, d)}
    IN  IF Cardinality(zs) = 1 THEN CHOOSE z \in zs : TRUE ELSE None

\* delivery.cluster_id: related zone_id.cluster_id.
delivery_cluster_id(sl, d) ==
    IF compute_zone_id(sl, d) = None THEN None ELSE ZoneCluster[compute_zone_id(sl, d)]

\* A total_volume that counts the cancelled slots as well.
compute_total_volume_all_slots(sl, d) == SumVolume(sl, slot_ids(sl, d))

\* delivery.total_volume: the volume of the slots that are not cancelled.
compute_total_volume(sl, d) ==
    SumVolume(sl, {s \in slot_ids(sl, d) : sl[s].status # "cancelled"})

\* A volume_loss that forgets the slots already on the delivery.
compute_volume_loss_capacity_only(sl, dl, d) == total_capacity(dl[d].vehicle_id)

\* delivery.volume_loss: what is left of the vehicle once every slot is in.
compute_volume_loss(sl, dl, d) ==
    IF dl[d].vehicle_id # None /\ slot_ids(sl, d) # {}
    THEN total_capacity(dl[d].vehicle_id) - SumVolume(sl, slot_ids(sl, d))
    ELSE total_capacity(dl[d].vehicle_id)

\* A date_in_past that also rejects today.
date_in_past_or_today(dl, d, now) == dl[d].date # NoDate /\ dl[d].date <= now

\* Delivery.date_in_past
date_in_past(dl, d, now) == dl[d].date # NoDate /\ dl[d].date < now

\* ------------------------------------------------------------ Slot methods
\* Slot.check_compatible: "True", "False", or the UserError it raises.
check_compatible(sl, dl, s, d) ==
    IF dl[d].vehicle_id # None
    THEN IF dl[d].status = "scheduled"
         THEN IF compute_volume_loss(sl, dl, d) > total_volume(sl, s)
              THEN [res |-> "True", msg |-> ""]
              ELSE [res |-> "False", msg |-> ""]
         ELSE [res |-> "UserError", msg |-> "Target delivery is not in scheduled status!"]
    ELSE [res |-> "UserError", msg |-> "Please Assign a vehicle to target delivery!"]

\* A change_delivery that reassigns delivery_id before it checks compatibility.
change_delivery_assigns_first(sl, dl, s, d) ==
    LET c == check_compatible(sl, dl, s, d)
        moved == [sl EXCEPT ![s].delivery_id = d]
    IN  IF c.res = "UserError"
        THEN [slot |-> moved, res |-> "UserError", msg |-> c.msg]
        ELSE IF c.res = "False"
        THEN [slot |-> moved, res |-> "UserError",
              msg |-> "The target delivery is not in scheduled state or the vehicle does not have the capacity to carry the product"]
        ELSE [slot |-> moved, res |-> "True", msg |-> ""]

\* Slot.change_delivery on one slot: the slots after the call and its result.
change_delivery(sl, dl, s, d) ==
    LET c == check_compatible(sl, dl, s, d)
    IN  IF c.res = "UserError"
        THEN [slot |-> sl, res |-> "UserError", msg |-> c.msg]
        ELSE IF c.res = "False"
        THEN [slot |-> sl, res |-> "UserError",
              msg |-> "The target delivery is not in scheduled state or the vehicle does not have the capacity to carry the product"]
        ELSE [slot |-> [sl EXCEPT ![s].delivery_id = d], res |-> "True", msg |-> ""]

RECURSIVE Slot_cancel_action_delivered_only(_, _)
\* A cancel_action that refuses delivered slots but lets returned ones through.
Slot_cancel_action_delivered_only(sl, ss) ==
    IF ss = <<>> THEN [slot |-> sl, res |-> "None", msg |-> ""]
    ELSE LET s == Head(ss)
         IN  IF sl[s].status = "delivered"
             THEN [slot |-> sl, res |-> "UserError",
                   msg |-> "Cannot cancel a slot that is delivered or returned"]
             ELSE Slot_cancel_action_delivered_only([sl EXCEPT ![s].status = "cancelled"],
                                                    Tail(ss))

RECURSIVE Slot_cancel_action(_, _)
\* Slot.cancel_action on the recordset ss.
Slot_cancel_action(sl, ss) ==
    IF ss = <<>> THEN [slot |-> sl, res |-> "None", msg |-> ""]
    ELSE LET s == Head(ss)
         IN  IF sl[s].status \in {"delivered", "returned"}
             THEN [slot |-> sl, res |-> "UserError",
                   msg |-> "Cannot cancel a slot that is delivered or returned"]
             ELSE Slot_cancel_action([sl EXCEPT ![s].status = "cancelled"], Tail(ss))

\* super().unlink() on the recordset ss: the rows are gone.
orm_unlink_slots(sl, ss) == [x \in SlotIds |-> IF x \in Range(ss) THEN NoSlot ELSE sl[x]]

RECURSIVE Slot_unlink_loop(_, _, _, _, _)
\* The loop of Slot.unlink: sl0 the slots at the call, all the recordset, rest what
\* is left of the iteration.  The first cancelled slot deletes the whole recordset;
\* reading the status of a record deleted meanwhile either raises MissingError or
\* yields the value the cache still holds (missingRaises chooses).
Slot_unlink_loop(sl0, sl, all, rest, missingRaises) ==
    IF rest = <<>> THEN [slot |-> sl, res |-> "True", msg |-> ""]
    ELSE LET s == Head(rest)
             notCancelled == [slot |-> sl, res |-> "UserError",
                              msg |-> "Cannot delete a slot that is not in Canclled state"]
         IN  IF ~sl[s].live
             THEN IF missingRaises
                  THEN [slot |-> sl, res |-> "MissingError",
                        msg |-> "Record does not exist or has been deleted."]
                  ELSE IF sl0[s].status # "cancelled" THEN notCancelled
                  ELSE Slot_unlink_loop(sl0, orm_unlink_slots(sl, all), all, Tail(rest), missingRaises)
             ELSE IF sl[s].status # "cancelled" THEN notCancelled
             ELSE Slot_unlink_loop(sl0, orm_unlink_slots(sl, all), all, Tail(rest), missingRaises)

\* Slot.unlink on the recordset ss.
Slot_unlink(sl, ss, missingRaises) == Slot_unlink_loop(sl, sl, ss, ss, missingRaises)

\* Slot.get_or_create_status_record: the zone status record of (zone, date), made
\* when there is none, gets the slot.
get_or_create_status_record(sl, zs, s, order) ==
    LET key == <<OrderZone[order], sl[s].date>>
    IN  [slot |-> [sl EXCEPT ![s].zone_status_id = key], zone_status |-> zs \cup {key}]

\* order.order_line, in id order.
order_line(o) == IdSeq({l \in Lines : LineOrder[l] = o})

RECURSIVE create_slots(_, _, _, _, _, _, _)
\* Slot.create_slots: one slot per order line, dated date, each entered in its zone
\* status record.  fail is the position of the line whose creation raises (0: none);
\* the slots made before it stay, and the method returns str(e) instead of the list.
create_slots(st, lines, order, date, fail, i, made) ==
    IF i > Len(lines) THEN [st EXCEPT !.slot_ids = made, !.failed = FALSE]
    ELSE IF i = fail THEN [st EXCEPT !.slot_ids = made, !.failed = TRUE]
    ELSE LET s == st.slot_seq + 1
             created == [st.slot EXCEPT ![s] = [NoSlot EXCEPT !.live = TRUE,
                                                              !.line = lines[i],
                                                              !.date = date]]
             z == get_or_create_status_record(created, st.zone_status, s, order)
         IN  create_slots([st EXCEPT !.slot = z.slot, !.zone_status = z.zone_status,
                                     !.slot_seq = s],
                          lines, order, date, fail, i + 1, Append(made, s))

RECURSIVE assign_slot_delivery(_, _, _)
\* Slot.assign_slot_delivery
assign_slot_delivery(sl, d, ss) ==
    IF ss = <<>> THEN sl
    ELSE assign_slot_delivery([sl EXCEPT ![Head(ss)].delivery_id = d], d, Tail(ss))

\* Slot.schedule with Slot.create_delivery: the new delivery is dated
\* order.delivery_date; a date in the past makes the date constraint raise inside
\* create, create_delivery hands back str(e), and reading .date of it raises in
\* turn; schedule returns that exception.
schedule_result(sl, dl, zs, sseq, dseq, odate, now, order, fail) ==
    LET d == dseq + 1
        dl1 == [dl EXCEPT ![d] = [NoDelivery EXCEPT !.live = TRUE, !.date = odate[order]]]
        st0 == [slot |-> sl, zone_status |-> zs, slot_seq |-> sseq,
                slot_ids |-> <<>>, failed |-> FALSE]
        st1 == create_slots(st0, order_line(order), order, dl1[d].date, fail, 1, <<>>)
    IN  IF date_in_past(dl1, d, now)
        THEN [slot |-> sl, delivery |-> dl1, zone_status |-> zs, slot_seq |-> sseq,
              delivery_seq |-> d, res |-> "AttributeError",
              msg |-> "'str' object has no attribute 'date'"]
        ELSE IF st1.failed
        THEN [slot |-> st1.slot, delivery |-> dl1, zone_status |-> st1.zone_status,
              slot_seq |-> st1.slot_seq, delivery_seq |-> d, res |-> "AttributeError",
              msg |-> "'str' object has no attribute 'write'"]
        ELSE [slot |-> assign_slot_delivery(st1.slot, d, st1.slot_ids), delivery |-> dl1,
              zone_status |-> st1.zone_status, slot_seq |-> st1.slot_seq,
              delivery_seq |-> d, res |-> "True", msg |-> ""]

\* Slot.set_delivered
set_delivered(sl, s) == [sl EXCEPT ![s].is_delivered = TRUE, ![s].status = "delivered"]

\* Slot.set_returned_driver_portal
set_returned_driver_portal(sl, s) ==
    [sl EXCEPT ![s].is_returned = TRUE, ![s].status = "returned"]

\* ------------------------------------------------------------ Delivery methods
RECURSIVE reallocate_slots(_, _, _, _)
\* The inner loop of Delivery.reallocate_to over the slots ss of one delivery.
reallocate_slots(sl, dl, ss, target) ==
    IF ss = <<>> THEN [slot |-> sl, res |-> "True", msg |-> ""]
    ELSE LET c == change_delivery(sl, dl, Head(ss), target)
         IN  IF c.res = "True" THEN reallocate_slots(c.slot, dl, Tail(ss), target) ELSE c

RECURSIVE reallocate_to(_, _, _, _)
\* Delivery.reallocate_to on the recordset ds: the return sits inside the loop over
\* the deliveries.
reallocate_to(sl, dl, ds, target) ==
    IF ds = <<>> THEN [slot |-> sl, res |-> "None", msg |-> ""]
    ELSE IF dl[target].status = "scheduled"
         THEN reallocate_slots(sl, dl, IdSeq(slot_ids(sl, Head(ds))), target)
         ELSE reallocate_to(sl, dl, Tail(ds), target)

RECURSIVE update_slot_dates_first_only(_, _, _, _)
\* A slot loop that stops after the first slot.
update_slot_dates_first_only(st, ss, new_date, i) ==
    IF i > Len(ss) \/ i > 1 THEN st
    ELSE LET s == ss[i]
             o == sale_order_id(st.slot, s)
             dated == [st.slot EXCEPT ![s].date = new_date]
             z == get_or_create_status_record(dated, st.zone_status, s, o)
         IN  update_slot_dates_first_only(
                 [slot |-> z.slot, zone_status |-> z.zone_status,
                  order_date |-> [st.order_date EXCEPT ![o] = new_date]],
                 ss, new_date, i + 1)

RECURSIVE update_slot_dates(_, _, _, _)
\* The slot loop of _update_delivery_date_and_related_objects.
update_slot_dates(st, ss, new_date, i) ==
    IF i > Len(ss) THEN st
    ELSE LET s == ss[i]
             o == sale_order_id(st.slot, s)
             dated == [st.slot EXCEPT ![s].date = new_date]
             z == get_or_create_status_record(dated, st.zone_status, s, o)
         IN  update_slot_dates([slot |-> z.slot, zone_status |-> z.zone_status,
                                order_date |-> [st.order_date EXCEPT ![o] = new_date]],
                               ss, new_date, i + 1)

RECURSIVE update_delivery_date_and_related_objects(_, _, _, _)
\* Delivery._update_delivery_date_and_related_objects on the recordset ds, whose
\* date has just been written.
update_delivery_date_and_related_objects(st, dl, ds, now) ==
    IF ds = <<>> THEN [st EXCEPT !.res = "None"]
    ELSE LET d == Head(ds)
         IN  IF date_in_past(dl, d, now)
             THEN [st EXCEPT !.res = "UserError", !.msg = "Delivery date cannot be in the past."]
             ELSE LET u == update_slot_dates([slot |-> st.slot, zone_status |-> st.zone_status,
                                              order_date |-> st.order_date],
                                             IdSeq(slot_ids(st.slot, d)), dl[d].date, 1)
                  IN  update_delivery_date_and_related_objects(
                          [st EXCEPT !.slot = u.slot, !.zone_status = u.zone_status,
                                     !.order_date = u.order_date],
                          dl, Tail(ds), now)

\* self.status = "cancelled"; self.cancelled_date = now: written on every record of self.
write_cancelled(dl, all) ==
    [x \in DeliveryIds |->
        IF x \in Range(all) THEN [dl[x] EXCEPT !.status = "cancelled", !.cancelled_date = TRUE]
        ELSE dl[x]]

RECURSIVE Delivery_cancel_action(_, _, _, _, _)
\* Delivery.cancel_action on the recordset all, rest being what is left of the loop.
\* validated: the orders that have a done picking towards transit or the customer.
Delivery_cancel_action(sl, dl, all, rest, validated) ==
    IF rest = <<>> THEN [slot |-> sl, delivery |-> dl, res |-> "None", msg |-> ""]
    ELSE LET d == Head(rest)
             c == Slot_cancel_action(sl, IdSeq(slot_ids(sl, d)))
         IN  IF /\ dl[d].status \in {"in_transit", "loaded"}
                /\ compute_sale_order_ids(sl, d) \cap validated # {}
             THEN [slot |-> sl, delivery |-> dl, res |-> "UserError",
                   msg |-> "Please reverse all validated  transfers cancel this delivery"]
             ELSE IF dl[d].status = "fulfilled"
             THEN [slot |-> sl, delivery |-> dl, res |-> "UserError",
                   msg |-> "You can only cancel a delivery that is not yet fulfilled"]
             ELSE IF c.res = "UserError"
             THEN [slot |-> c.slot, delivery |-> dl, res |-> "UserError", msg |-> c.msg]
             ELSE Delivery_cancel_action(c.slot, write_cancelled(dl, all), all, Tail(rest),
                                         validated)

RECURSIVE unlink_each(_, _)
\* for item in delivery.slot_ids: item.unlink()
unlink_each(sl, ss) ==
    IF ss = <<>> THEN [slot |-> sl, res |-> "True", msg |-> ""]
    ELSE LET u == Slot_unlink(sl, <<Head(ss)>>, TRUE)
         IN  IF u.res = "True" THEN unlink_each(u.slot, Tail(ss)) ELSE u

\* super().unlink() on the deliveries ds; slot.delivery_id is set null on delete.
orm_unlink_deliveries(sl, dl, ds) ==
    [slot |-> [x \in SlotIds |->
                  IF sl[x].delivery_id \in Range(ds) THEN [sl[x] EXCEPT !.delivery_id = None]
                  ELSE sl[x]],
     delivery |-> [x \in DeliveryIds |-> IF x \in Range(ds) THEN NoDelivery ELSE dl[x]]]

\* An unlink that checks the status of the last delivery only.
Delivery_unlink_checks_last(sl, dl, ds) ==
    IF dl[ds[Len(ds)]].status # "cancelled"
    THEN [slot |-> sl, delivery |-> dl, res |-> "UserError",
          msg |-> "You can only delete cancelled deliveries"]
    ELSE LET u == unlink_each(sl, IdSeq(slot_ids(sl, ds[Len(ds)])))
             gone == orm_unlink_deliveries(u.slot, dl, ds)
         IN  IF u.res # "True"
             THEN [slot |-> u.slot, delivery |-> dl, res |-> u.res, msg |-> u.msg]
             ELSE [slot |-> gone.slot, delivery |-> gone.delivery, res |-> "True", msg |-> ""]

\* Delivery.unlink on the recordset ds: every delivery must be cancelled; the slots
\* of the last delivery of the loop are unlinked one by one, then the deliveries go.
Delivery_unlink(sl, dl, ds) ==
    IF \E i \in 1..Len(ds) : dl[ds[i]].status # "cancelled"
    THEN [slot |-> sl, delivery |-> dl, res |-> "UserError",
          msg |-> "You can only delete cancelled deliveries"]
    ELSE LET u == unlink_each(sl, IdSeq(slot_ids(sl, ds[Len(ds)])))
             gone == orm_unlink_deliveries(u.slot, dl, ds)
         IN  IF u.res # "True"
             THEN [slot |-> u.slot, delivery |-> dl, res |-> u.res, msg |-> u.msg]
             ELSE [slot |-> gone.slot, delivery |-> gone.delivery, res |-> "True", msg |-> ""]

\* Delivery.set_loaded on one delivery.  pending: the orders with a picking towards
\* transit that is not done.
set_loaded(sl, dl, d, pending) ==
    IF dl[d].vehicle_id = None
    THEN [delivery |-> dl, res |-> "UserError", msg |-> "Please select vehicle"]
    ELSE IF compute_sale_order_ids(sl, d) \cap pending # {}
    THEN [delivery |-> dl, res |-> "UserError",
          msg |-> "Please validate  all the transfers with destination 'Transit' before setting the delivery as loaded"]
    ELSE [delivery |-> [dl EXCEPT ![d].status = "loaded"], res |-> "None", msg |-> ""]

\* Delivery.start_trip
start_trip(dl, d) == [dl EXCEPT ![d].status = "in_transit"]

\* Delivery.set_fulfilled
set_fulfilled(dl, d) == [dl EXCEPT ![d].status = "fulfilled"]

\* Delivery.ensure_fits on the recordset ds: the first record decides; an empty
\* recordset falls out of the loop (None).
ensure_fits(sl, dl, ds) ==
    IF ds = <<>> THEN "None"
    ELSE LET d == Head(ds)
         IN  IF dl[d].vehicle_id # None
             THEN IF compute_total_volume(sl, d) > total_capacity(dl[d].vehicle_id)
                  THEN "False"
                  ELSE "True"
             ELSE "True"

\* Delivery.onchange_vehicle_id on the form record of delivery d, whose vehicle
\* field has just been set to v (None: cleared) and is not saved yet.
onchange_vehicle_id(sl, dl, d, v) ==
    IF ensure_fits(sl, [dl EXCEPT ![d].vehicle_id = v], <<d>>) \in {"False", "None"}
    THEN [res |-> "UserError", msg |-> "Vehicle capacity is not enough for this delivery"]
    ELSE [res |-> "None", msg |-> ""]

\* Delivery.VALID_STATUSES_SLOT_STATUS_CHANGE
VALID_STATUSES_SLOT_STATUS_CHANGE == {"scheduled", "loaded"}

\* delivery.slot_ids.filtered(lambda slot: slot.status == 'scheduled'), in id order.
scheduled_slots(sl, d) == IdSeq({s \in slot_ids(sl, d) : sl[s].status = "scheduled"})

RECURSIVE set_slots_delivered(_, _)
\* Delivery._set_slots_delivered: every slot of the delivery, whatever its status.
set_slots_delivered(sl, ss) ==
    IF ss = <<>> THEN sl
    ELSE set_slots_delivered(set_delivered(sl, Head(ss)), Tail(ss))

RECURSIVE set_all_slots_delivered(_, _, _)
\* Delivery.set_all_slots_delivered on the recordset ds.
set_all_slots_delivered(sl, dl, ds) ==
    IF ds = <<>> THEN [slot |-> sl, res |-> "None", msg |-> ""]
    ELSE LET d == Head(ds)
         IN  IF dl[d].status \notin VALID_STATUSES_SLOT_STATUS_CHANGE
             THEN IF scheduled_slots(sl, d) # <<>>
                  THEN set_all_slots_delivered(
                           set_slots_delivered(sl, IdSeq(slot_ids(sl, d))), dl, Tail(ds))
                  ELSE [slot |-> sl, res |-> "UserError", msg |-> "No Scheduled Slots!"]
             ELSE [slot |-> sl, res |-> "UserError",
                   msg |-> "A delivery must be at least in transit if you want to deliver a slot!"]

RECURSIVE set_slots_cancelled(_, _)
\* Delivery._set_slots_cancelled: slot.cancel_action() on every slot of the delivery,
\* whatever its status; the first one that raises ends the loop.
set_slots_cancelled(sl, ss) ==
    IF ss = <<>> THEN [slot |-> sl, res |-> "None", msg |-> ""]
    ELSE LET c == Slot_cancel_action(sl, <<Head(ss)>>)
         IN  IF c.res = "UserError" THEN c ELSE set_slots_cancelled(c.slot, Tail(ss))

RECURSIVE cancel_for_each_scheduled(_, _, _)
\* for slot in scheduled_slots: delivery._set_slots_cancelled(delivery)
cancel_for_each_scheduled(sl, d, n) ==
    IF n = 0 THEN [slot |-> sl, res |-> "None", msg |-> ""]
    ELSE LET c == set_slots_cancelled(sl, IdSeq(slot_ids(sl, d)))
         IN  IF c.res = "UserError" THEN c ELSE cancel_for_each_scheduled(c.slot, d, n - 1)

RECURSIVE set_all_slots_cancelled(_, _, _)
\* Delivery.set_all_slots_cancelled on the recordset ds.
set_all_slots_cancelled(sl, dl, ds) ==
    IF ds = <<>> THEN [slot |-> sl, res |-> "None", msg |-> ""]
    ELSE LET d == Head(ds)
             c == cancel_for_each_scheduled(sl, d, Len(scheduled_slots(sl, d)))
         IN  IF dl[d].status \notin VALID_STATUSES_SLOT_STATUS_CHANGE
             THEN IF scheduled_slots(sl, d) # <<>>
                  THEN IF c.res = "UserError" THEN c
                       ELSE set_all_slots_cancelled(c.slot, dl, Tail(ds))
                  ELSE [slot |-> sl, res |-> "UserError", msg |-> "No Scheduled Slots!"]
             ELSE [slot |-> sl, res |-> "UserError",
                   msg |-> "A delivery must be at least in transit if you want to Cancel a slot!"]

\* ------------------------------------------------------------ state machine
LiveSlots == {s \in SlotIds : slot[s].live}
LiveDeliveries == {d \in DeliveryIds : delivery[d].live}
SlotSets == RecordSets(LiveSlots, MaxRecs) \ {<<>>}
DeliverySets == RecordSets(LiveDeliveries, MaxRecs) \ {<<>>}
Returned == [res |-> "None", msg |-> ""]

Init ==
    /\ slot = [s \in SlotIds |-> NoSlot]
    /\ delivery = [d \in DeliveryIds |-> NoDelivery]
    /\ slot_seq = 0
    /\ delivery_seq = 0
    /\ zone_status = {}
    /\ order_date = [o \in Orders |-> IF o <= MaxDate THEN o ELSE MaxDate]
    /\ today = 1
    /\ ret = Ret("init", Returned)

\* datetime.datetime.today() moves on.
AdvanceDay ==
    /\ today < MaxDate
    /\ today' = today + 1
    /\ ret' = Ret("today", Returned)
    /\ UNCHANGED <<slot, delivery, slot_seq, delivery_seq, zone_status, order_date>>

Schedule(order, fail) ==
    /\ delivery_seq < MaxDeliveries
    /\ slot_seq + Len(order_line(order)) <= MaxSlots
    /\ LET r == schedule_result(slot, delivery, zone_status, slot_seq, delivery_seq,
                                order_date, today, order, fail)
       IN  /\ slot' = r.slot
           /\ delivery' = r.delivery
           /\ zone_status' = r.zone_status
           /\ slot_seq' = r.slot_seq
           /\ delivery_seq' = r.delivery_seq
           /\ ret' = Ret("schedule", r)
    /\ UNCHANGED <<order_date, today>>

ChangeDelivery(s, d) ==
    /\ LET r == change_delivery(slot, delivery, s, d)
       IN  /\ slot' = r.slot
           /\ ret' = Ret("change_delivery", r)
    /\ UNCHANGED <<delivery, slot_seq, delivery_seq, zone_status, order_date, today>>

ReallocateTo(ds, target) ==
    /\ LET r == reallocate_to(slot, delivery, ds, target)
       IN  /\ slot' = r.slot
           /\ ret' = Ret("reallocate_to", r)
    /\ UNCHANGED <<delivery, slot_seq, delivery_seq, zone_status, order_date, today>>

\* write({'date': new_date}) on the deliveries ds, with the constraint it triggers.
WriteDate(ds, new_date) ==
    /\ LET written == [x \in DeliveryIds |->
                          IF x \in Range(ds) THEN [delivery[x] EXCEPT !.date = new_date]
                          ELSE delivery[x]]
           r == update_delivery_date_and_related_objects(
                    [slot |-> slot, zone_status |-> zone_status, order_date |-> order_date,
                     res |-> "None", msg |-> ""],
                    written, ds, today)
       IN  /\ delivery' = written
           /\ slot' = r.slot
           /\ zone_status' = r.zone_status
           /\ order_date' = r.order_date
           /\ ret' = Ret("write_date", r)
    /\ UNCHANGED <<slot_seq, delivery_seq, today>>

\* write({'vehicle_id': v}) on the delivery d.  The constraints on vehicle_id
\* (assign_slots_vehicle, refresh_all_vehicles_assigned) copy the vehicle to
\* slot.vehicle_id and refresh a flag of the orders, which no method here reads.
WriteVehicle(d, v) ==
    /\ delivery' = [delivery EXCEPT ![d].vehicle_id = v]
    /\ ret' = Ret("write_vehicle_id", Returned)
    /\ UNCHANGED <<slot, slot_seq, delivery_seq, zone_status, order_date, today>>

DeliveryCancelAction(ds, validated) ==
    /\ LET r == Delivery_cancel_action(slot, delivery, ds, ds, validated)
       IN  /\ slot' = r.slot
           /\ delivery' = r.delivery
           /\ ret' = Ret("Delivery.cancel_action", r)
    /\ UNCHANGED <<slot_seq, delivery_seq, zone_status, order_date, today>>

SlotCancelAction(ss) ==
    /\ LET r == Slot_cancel_action(slot, ss)
       IN  /\ slot' = r.slot
           /\ ret' = Ret("Slot.cancel_action", r)
    /\ UNCHANGED <<delivery, slot_seq, delivery_seq, zone_status, order_date, today>>

DeliveryUnlink(ds) ==
    /\ LET r == Delivery_unlink(slot, delivery, ds)
       IN  /\ slot' = r.slot
           /\ delivery' = r.delivery
           /\ ret' = Ret("Delivery.unlink", r)
    /\ UNCHANGED <<slot_seq, delivery_seq, zone_status, order_date, today>>

SlotUnlink(ss, missingRaises) ==
    /\ LET r == Slot_unlink(slot, ss, missingRaises)
       IN  /\ slot' = r.slot
           /\ ret' = Ret("Slot.unlink", r)
    /\ UNCHANGED <<delivery, slot_seq, delivery_seq, zone_status, order_date, today>>

SetDelivered(s) ==
    /\ slot' = set_delivered(slot, s)
    /\ ret' = Ret("set_delivered", Returned)
    /\ UNCHANGED <<delivery, slot_seq, delivery_seq, zone_status, order_date, today>>

SetReturnedDriverPortal(s) ==
    /\ slot' = set_returned_driver_portal(slot, s)
    /\ ret' = Ret("set_returned_driver_portal", Returned)
    /\ UNCHANGED <<delivery, slot_seq, delivery_seq, zone_status, order_date, today>>

SetLoaded(d, pending) ==
    /\ LET r == set_loaded(slot, delivery, d, pending)
       IN  /\ delivery' = r.delivery
           /\ ret' = Ret("set_loaded", r)
    /\ UNCHANGED <<slot, slot_seq, delivery_seq, zone_status, order_date, today>>

StartTrip(d) ==
    /\ delivery' = start_trip(delivery, d)
    /\ ret' = Ret("start_trip", Returned)
    /\ UNCHANGED <<slot, slot_seq, delivery_seq, zone_status, order_date, today>>

SetFulfilled(d) ==
    /\ delivery' = set_fulfilled(delivery, d)
    /\ ret' = Ret("set_fulfilled", Returned)
    /\ UNCHANGED <<slot, slot_seq, delivery_seq, zone_status, order_date, today>>

EnsureFits(ds) ==
    /\ ret' = Ret("ensure_fits", [res |-> ensure_fits(slot, delivery, ds), msg |-> ""])
    /\ UNCHANGED <<slot, delivery, slot_seq, delivery_seq, zone_status, order_date, today>>

OnchangeVehicleId(d, v) ==
    /\ ret' = Ret("onchange_vehicle_id", onchange_vehicle_id(slot, delivery, d, v))
    /\ UNCHANGED <<slot, delivery, slot_seq, delivery_seq, zone_status, order_date, today>>

SetAllSlotsDelivered(ds) ==
    /\ LET r == set_all_slots_delivered(slot, delivery, ds)
       IN  /\ slot' = r.slot
           /\ ret' = Ret("set_all_slots_delivered", r)
    /\ UNCHANGED <<delivery, slot_seq, delivery_seq, zone_status, order_date, today>>

SetAllSlotsCancelled(ds) ==
    /\ LET r == set_all_slots_cancelled(slot, delivery, ds)
       IN  /\ slot' = r.slot
           /\ ret' = Ret("set_all_slots_cancelled", r)
    /\ UNCHANGED <<delivery, slot_seq, delivery_seq, zone_status, order_date, today>>

\* The calls, by the records they are made on.
DoSchedule == \E o \in Orders : \E fail \in 0..Len(order_line(o)) : Schedule(o, fail)
DoChangeDelivery == \E s \in LiveSlots : \E d \in LiveDeliveries : ChangeDelivery(s, d)
DoReallocateTo == \E ds \in DeliverySets : \E target \in LiveDeliveries : ReallocateTo(ds, target)
DoWriteDate == \E ds \in DeliverySets : \E new_date \in Dates : WriteDate(ds, new_date)
DoSetDate == \E d \in LiveDeliveries : \E new_date \in 1..MaxDate : WriteDate(<<d>>, new_date)
DoWriteVehicle == \E d \in LiveDeliveries : \E v \in Vehicles : WriteVehicle(d, v)
DoDeliveryCancelAction ==
    \E ds \in DeliverySets : \E validated \in {{}, Orders} : DeliveryCancelAction(ds, validated)
DoSlotCancelAction == \E ss \in SlotSets : SlotCancelAction(ss)
DoDeliveryUnlink == \E ds \in DeliverySets : DeliveryUnlink(ds)
DoSlotUnlink == \E ss \in SlotSets : \E missingRaises \in BOOLEAN : SlotUnlink(ss, missingRaises)
DoSetDelivered == \E s \in LiveSlots : SetDelivered(s)
DoSetReturnedDriverPortal == \E s \in LiveSlots : SetReturnedDriverPortal(s)
DoSetLoaded == \E d \in LiveDeliveries : \E pending \in {{}, Orders} : SetLoaded(d, pending)
DoStartTrip == \E d \in LiveDeliveries : StartTrip(d)
DoSetFulfilled == \E d \in LiveDeliveries : SetFulfilled(d)
DoEnsureFits == \E ds \in DeliverySets : EnsureFits(ds)
DoOnchangeVehicleId ==
    \E d \in LiveDeliveries : \E v \in Vehicles \cup {None} : OnchangeVehicleId(d, v)
DoSetAllSlotsDelivered == \E ds \in DeliverySets : SetAllSlotsDelivered(ds)
DoSetAllSlotsCancelled == \E ds \in DeliverySets : SetAllSlotsCancelled(ds)

\* Planning: orders are scheduled, deliveries get vehicles and are loaded, slots move.
NextMove ==
    \/ DoSchedule
    \/ DoWriteVehicle
    \/ DoSetLoaded
    \/ DoChangeDelivery
    \/ DoReallocateTo

SpecMove == Init /\ [][NextMove]_vars

\* Dating: days pass, deliveries are re-dated, slots move.
NextDate ==
    \/ AdvanceDay
    \/ DoSchedule
    \/ DoWriteDate

SpecDate == Init /\ [][NextDate]_vars

\* Carrying out: trips start and end, slots are delivered or returned, slots and
\* deliveries are cancelled.
NextCancel ==
    \/ DoSchedule
    \/ DoStartTrip
    \/ DoSetFulfilled
    \/ DoSetDelivered
    \/ DoSetReturnedDriverPortal
    \/ DoSlotCancelAction
    \/ DoDeliveryCancelAction

SpecCancel == Init /\ [][NextCancel]_vars

\* Clearing out: slots and deliveries are cancelled and deleted.
NextUnlink ==
    \/ DoSchedule
    \/ DoStartTrip
    \/ DoSetDelivered
    \/ DoSlotCancelAction
    \/ DoDeliveryCancelAction
    \/ DoSlotUnlink
    \/ DoDeliveryUnlink

SpecUnlink == Init /\ [][NextUnlink]_vars

\* Bulk updates: the slots of a delivery on its way are delivered or cancelled
\* together.
NextBulk ==
    \/ DoSchedule
    \/ DoStartTrip
    \/ DoSetFulfilled
    \/ DoSetDelivered
    \/ DoSetReturnedDriverPortal
    \/ DoDeliveryCancelAction
    \/ DoSetAllSlotsDelivered
    \/ DoSetAllSlotsCancelled

SpecBulk == Init /\ [][NextBulk]_vars

\* Fitting: vehicles are chosen for deliveries whose slots come and go.
NextFit ==
    \/ DoSchedule
    \/ DoWriteVehicle
    \/ DoSlotCancelAction
    \/ DoEnsureFits
    \/ DoOnchangeVehicleId

SpecFit == Init /\ [][NextFit]_vars

\* Aggregating: orders are scheduled, deliveries are re-dated and get vehicles,
\* slots move between deliveries.
NextAggregate ==
    \/ DoSchedule
    \/ DoWriteVehicle
    \/ DoSetDate
    \/ DoChangeDelivery
    \/ DoReallocateTo

SpecAggregate == Init /\ [][NextAggregate]_vars

\* ------------------------------------------------------------ properties
NoRoomMessage ==
    "The target delivery is not in scheduled state or the vehicle does not have the capacity to carry the product"

\* C1: a successful change_delivery(target) was accepted because the target's
\* volume_loss was strictly greater than the slot's volume, and afterwards the summed
\* volume of the target's slots, the moved one included, is within the capacity of
\* the target's vehicle.
C1_ChangeDeliveryNeverOverloads ==
    [][\A s \in LiveSlots : \A d \in LiveDeliveries :
          (ret'.op = "change_delivery" /\ ret'.res = "True" /\ ChangeDelivery(s, d)) =>
              /\ compute_volume_loss(slot, delivery, d) > total_volume(slot, s)
              /\ slot'[s].delivery_id = d
              /\ SumVolume(slot', slot_ids(slot', d)) <= total_capacity(delivery'[d].vehicle_id)]_vars

\* C1 witness: a slot has just been moved onto a delivery that carries slots of
\* another order and has a vehicle.
C1_Witness ==
    /\ ret.op = "change_delivery" /\ ret.res = "True"
    /\ \E d \in LiveDeliveries :
          /\ delivery[d].vehicle_id # None
          /\ Cardinality(compute_sale_order_ids(slot, d)) >= 2

\* C2: change_delivery succeeds only onto a scheduled delivery of the slot's
\* cluster and of the slot's date.
C2_SameClusterAndDate ==
    [][\A s \in LiveSlots : \A d \in LiveDeliveries :
          (ret'.op = "change_delivery" /\ ret'.res = "True" /\ ChangeDelivery(s, d)) =>
              /\ delivery[d].status = "scheduled"
              /\ slot[s].date = delivery[d].date
              /\ slot_ids(slot, d) # {} => cluster_id(slot, s) = delivery_cluster_id(slot, d)]_vars

\* C3: when the target has no vehicle, is not scheduled or lacks room, change_delivery
\* raises UserError and leaves the slots as they were; delivery_id changes only when
\* check_compatible returned true.
C3_FailedChangeKeepsSlot ==
    [][\A s \in LiveSlots : \A d \in LiveDeliveries :
          (ret'.op = "change_delivery" /\ ChangeDelivery(s, d)) =>
              /\ ( \/ delivery[d].vehicle_id = None
                   \/ delivery[d].status # "scheduled"
                   \/ compute_volume_loss(slot, delivery, d) <= total_volume(slot, s) )
                 => (ret'.res = "UserError" /\ slot' = slot)
              /\ slot'[s].delivery_id # slot[s].delivery_id
                 => check_compatible(slot, delivery, s, d).res = "True"]_vars

\* C3 witness: change_delivery has just been refused for lack of room, the slot
\* sitting on another delivery than the scheduled one it was refused by.
C3_Witness ==
    /\ ret.op = "change_delivery" /\ ret.res = "UserError" /\ ret.msg = NoRoomMessage
    /\ \E s \in LiveSlots : \E d \in LiveDeliveries :
          /\ slot[s].delivery_id # d
          /\ delivery[d].vehicle_id # None /\ delivery[d].status = "scheduled"
          /\ compute_volume_loss(slot, delivery, d) <= total_volume(slot, s)

\* C4: reallocate_to(target) on a set of deliveries returns True only when the target
\* is scheduled and every slot of every delivery of the set is now on the target; with
\* a target that is not scheduled nothing moves and True is not returned.
C4_ReallocateMovesEverySlot ==
    [][\A ds \in DeliverySets : \A target \in LiveDeliveries :
          (ret'.op = "reallocate_to" /\ ReallocateTo(ds, target)) =>
              /\ ret'.res = "True" =>
                    /\ delivery[target].status = "scheduled"
                    /\ \A i \in 1..Len(ds) : \A s \in slot_ids(slot, ds[i]) :
                          slot'[s].delivery_id = target
              /\ delivery[target].status # "scheduled" =>
                    (slot' = slot /\ ret'.res # "True")]_vars

\* C5: writing a date strictly before today on deliveries raises "Delivery date
\* cannot be in the past." with no slot, sale order date or zone status record
\* touched; today's date and an unset date are never rejected.
C5_PastDateRejectedUntouched ==
    [][\A ds \in DeliverySets : \A new_date \in Dates :
          (ret'.op = "write_date" /\ WriteDate(ds, new_date)) =>
              /\ (new_date # NoDate /\ new_date < today) =>
                    /\ ret'.res = "UserError"
                    /\ ret'.msg = "Delivery date cannot be in the past."
                    /\ slot' = slot /\ order_date' = order_date /\ zone_status' = zone_status
              /\ (new_date = NoDate \/ new_date >= today) => ret'.res = "None"]_vars

\* C5 witness: a date in the past has just been refused on a delivery that has slots.
C5_Witness ==
    /\ ret.op = "write_date" /\ ret.res = "UserError"
    /\ \E d \in LiveDeliveries :
          /\ date_in_past(delivery, d, today)
          /\ slot_ids(slot, d) # {}
          /\ \A s \in slot_ids(slot, d) : slot[s].date # delivery[d].date

\* C6: after an accepted date change every slot of the delivery is dated with the new
\* date, and so is the sale order of every such slot.
C6_AcceptedDateReachesSlotsAndOrders ==
    [][\A ds \in DeliverySets : \A new_date \in Dates :
          (ret'.op = "write_date" /\ ret'.res = "None" /\ WriteDate(ds, new_date)) =>
              \A i \in 1..Len(ds) :
                  /\ delivery'[ds[i]].date = new_date
                  /\ \A s \in slot_ids(slot', ds[i]) :
                        /\ slot'[s].date = new_date
                        /\ order_date'[sale_order_id(slot', s)] = new_date]_vars

\* C6 witness: a delivery with two slots has just been moved to a date its order was
\* not scheduled for, and slots and order follow.
C6_Witness ==
    /\ ret.op = "write_date" /\ ret.res = "None"
    /\ \E d \in LiveDeliveries :
          /\ Cardinality(slot_ids(slot, d)) >= 2
          /\ delivery[d].date = MaxDate
          /\ \A s \in slot_ids(slot, d) :
                /\ slot[s].date = MaxDate
                /\ sale_order_id(slot, s) < MaxDate
                /\ order_date[sale_order_id(slot, s)] = MaxDate

\* C7: cancel_action raises on a fulfilled delivery and leaves it fulfilled; when it
\* succeeds every delivery it was called on is cancelled, has its cancelled_date and
\* only cancelled slots; it never succeeds while a slot is delivered or returned.
C7_DeliveryCancelAction ==
    [][\A ds \in DeliverySets : \A validated \in SUBSET Orders :
          (ret'.op = "Delivery.cancel_action" /\ DeliveryCancelAction(ds, validated)) =>
              /\ \A i \in 1..Len(ds) :
                    delivery[ds[i]].status = "fulfilled" =>
                        (ret'.res = "UserError" /\ delivery'[ds[i]].status = "fulfilled")
              /\ ret'.res = "None" =>
                    \A i \in 1..Len(ds) :
                        /\ delivery'[ds[i]].status = "cancelled"
                        /\ delivery'[ds[i]].cancelled_date
                        /\ \A s \in slot_ids(slot', ds[i]) : slot'[s].status = "cancelled"
              /\ (\E i \in 1..Len(ds) : \E s \in slot_ids(slot, ds[i]) :
                      slot[s].status \in {"delivered", "returned"})
                 => ret'.res = "UserError"]_vars

\* C8: cancel_action never changes a delivered or returned slot and raises UserError
\* when it meets one; called on a slot that is scheduled or cancelled it ends with
\* the slot cancelled, and a call that returns has cancelled every slot it was
\* called on.
C8_SlotCancelAction ==
    [][\A ss \in SlotSets :
          (ret'.op = "Slot.cancel_action" /\ SlotCancelAction(ss)) =>
              /\ \A i \in 1..Len(ss) :
                    slot[ss[i]].status \in {"delivered", "returned"} =>
                        (ret'.res = "UserError" /\ slot'[ss[i]] = slot[ss[i]])
              /\ (Len(ss) = 1 /\ slot[ss[1]].status \in {"scheduled", "cancelled"}) =>
                    (ret'.res = "None" /\ slot'[ss[1]].status = "cancelled")
              /\ ret'.res = "None" => \A i \in 1..Len(ss) : slot'[ss[i]].status = "cancelled"]_vars

\* C8 witness: cancel_action has just been refused, and a returned slot is still
\* returned.
C8_Witness ==
    /\ ret.op = "Slot.cancel_action" /\ ret.res = "UserError"
    /\ \E s \in LiveSlots : slot[s].status = "returned"

\* C9: unlink on deliveries of which one is not cancelled raises "You can only delete
\* cancelled deliveries" and deletes nothing; no call at all deletes a delivery that
\* is not cancelled.
C9_OnlyCancelledDeliveriesDeleted ==
    [][/\ \A ds \in DeliverySets :
             ( /\ ret'.op = "Delivery.unlink"
               /\ DeliveryUnlink(ds)
               /\ \E i \in 1..Len(ds) : delivery[ds[i]].status # "cancelled" )
             => /\ ret'.res = "UserError"
                /\ ret'.msg = "You can only delete cancelled deliveries"
                /\ delivery' = delivery /\ slot' = slot
       /\ \A d \in DeliveryIds :
             (delivery[d].live /\ ~delivery'[d].live) => delivery[d].status = "cancelled"]_vars

\* C9 witness: unlink has just been refused on a set that mixes a cancelled delivery
\* with one that is not.
C9_Witness ==
    /\ ret.op = "Delivery.unlink" /\ ret.res = "UserError"
    /\ ret.msg = "You can only delete cancelled deliveries"
    /\ \E d1 \in LiveDeliveries : \E d2 \in LiveDeliveries :
          delivery[d1].status = "cancelled" /\ delivery[d2].status # "cancelled"

\* C10: Slot.unlink on any set of slots leaves every slot that is not cancelled in
\* place and raises an error for it.
C10_UnlinkKeepsUncancelledSlots ==
    [][\A ss \in SlotSets : \A missingRaises \in BOOLEAN :
          (ret'.op = "Slot.unlink" /\ SlotUnlink(ss, missingRaises)) =>
              \A i \in 1..Len(ss) :
                  slot[ss[i]].status # "cancelled" =>
                      /\ slot'[ss[i]].live
                      /\ ret'.res \in {"UserError", "MissingError"}]_vars

\* C11: set_all_slots_delivered changes the status of a delivery's slots only when
\* the delivery is in_transit or fulfilled; for a delivery that is scheduled,
\* loaded or cancelled it raises UserError and changes none of its slots; for a
\* delivery of an eligible status without a scheduled slot it raises UserError
\* ("No Scheduled Slots!" when the call is on that delivery alone) and changes none
\* of its slots.
C11_BulkDeliverNeedsTransit ==
    [][\A ds \in DeliverySets :
          (ret'.op = "set_all_slots_delivered" /\ SetAllSlotsDelivered(ds)) =>
              \A i \in 1..Len(ds) :
                  LET d == ds[i]
                      untouched == \A s \in slot_ids(slot, d) : slot'[s] = slot[s]
                  IN  /\ ~untouched => delivery[d].status \in {"in_transit", "fulfilled"}
                      /\ delivery[d].status \in {"scheduled", "loaded", "cancelled"} =>
                             ret'.res = "UserError" /\ untouched
                      /\ ( /\ delivery[d].status \in {"in_transit", "fulfilled"}
                           /\ scheduled_slots(slot, d) = <<>> ) =>
                             /\ ret'.res = "UserError"
                             /\ untouched
                             /\ Len(ds) = 1 => ret'.msg = "No Scheduled Slots!"]_vars

\* C12: set_all_slots_cancelled on a delivery that is neither scheduled nor loaded
\* and has a scheduled slot succeeds; afterwards none of its slots is scheduled and
\* the slots that were delivered or returned have the status they had.
C12_BulkCancelLeavesNoScheduledSlot ==
    [][\A d \in LiveDeliveries :
          ( /\ ret'.op = "set_all_slots_cancelled"
            /\ SetAllSlotsCancelled(<<d>>)
            /\ delivery[d].status \notin {"scheduled", "loaded"}
            /\ scheduled_slots(slot, d) # <<>> ) =>
              /\ ret'.res = "None"
              /\ \A s \in slot_ids(slot, d) :
                     /\ slot'[s].status # "scheduled"
                     /\ slot[s].status \in {"delivered", "returned"} =>
                            slot'[s].status = slot[s].status]_vars

\* The volume of the slots of d that are not cancelled.
LiveVolume(d) == SumVolume(slot, {s \in slot_ids(slot, d) : slot[s].status # "cancelled"})

\* C13: ensure_fits returns false exactly when the delivery (the first of the
\* recordset) has a vehicle and the volume of its non-cancelled slots is greater
\* than the vehicle's total capacity, and true otherwise; onchange_vehicle_id raises
\* UserError("Vehicle capacity is not enough for this delivery") exactly when the
\* delivery with the vehicle just chosen does not fit, and changes nothing.
C13_VehicleFitCheck ==
    [][/\ \A ds \in DeliverySets :
              (ret'.op = "ensure_fits" /\ EnsureFits(ds)) =>
                  LET d == ds[1]
                      over == /\ delivery[d].vehicle_id # None
                              /\ LiveVolume(d) > total_capacity(delivery[d].vehicle_id)
                  IN  /\ ret'.res = "False" <=> over
                      /\ ret'.res = "True" <=> ~over
       /\ \A d \in LiveDeliveries : \A v \in Vehicles \cup {None} :
              (ret'.op = "onchange_vehicle_id" /\ OnchangeVehicleId(d, v)) =>
                  LET over == v # None /\ LiveVolume(d) > total_capacity(v)
                  IN  /\ ( /\ ret'.res = "UserError"
                           /\ ret'.msg = "Vehicle capacity is not enough for this delivery" )
                         <=> over
                      /\ ret'.res = "None" <=> ~over
                      /\ slot' = slot /\ delivery' = delivery]_vars

\* C13 witness: a vehicle has just been refused, and there is a delivery whose
\* non-cancelled slots are too much for one vehicle and not for another.
C13_Witness ==
    /\ ret.op = "onchange_vehicle_id"
    /\ ret.res = "UserError"
    /\ \E d \in LiveDeliveries :
           /\ \E v \in Vehicles : LiveVolume(d) > total_capacity(v)
           /\ \E v \in Vehicles : LiveVolume(d) <= total_capacity(v)

\* C14: schedule(order) returns True exactly when it created one new delivery dated
\* order.delivery_date and exactly one new slot per order line, each dated with
\* the delivery's date and assigned to it; when it returns anything else, no
\* delivery and no slot created by the call remains.
C14_ScheduleAllOrNothing ==
    [][\A order \in Orders : \A fail \in 0..Len(order_line(order)) :
          (ret'.op = "schedule" /\ Schedule(order, fail)) =>
              LET newD == {d \in DeliveryIds : delivery'[d].live /\ ~delivery[d].live}
                  newS == {s \in SlotIds : slot'[s].live /\ ~slot[s].live}
                  lines == Range(order_line(order))
                  all == /\ Cardinality(newD) = 1
                         /\ \A d \in newD : delivery'[d].date = order_date[order]
                         /\ Cardinality(newS) = Cardinality(lines)
                         /\ \A l \in lines : \E s \in newS : slot'[s].line = l
                         /\ \A s \in newS : \A d \in newD :
                                /\ slot'[s].date = delivery'[d].date
                                /\ slot'[s].delivery_id = d
              IN  /\ ret'.res = "True" <=> all
                  /\ ret'.res # "True" => newD = {} /\ newS = {}]_vars

\* C15: after any sequence of schedule, delivery date changes, change_delivery and
\* reallocate_to, every slot assigned to a delivery has the date of that delivery.
C15_SlotsShareDeliveryDate ==
    \A s \in LiveSlots :
        slot[s].delivery_id # None => slot[s].date = delivery[slot[s].delivery_id].date

====
